---- MODULE Spec2Model ----
(***************************************************************************)
(* Streaming ICF generation: the HTTP endpoint generate_icf_stream, the    *)
(* coordinator ICFGenerationService.generate_icf_streaming, the background *)
(* workflow task _execute_streaming_workflow / WorkflowBase.invoke and the *)
(* section generators StreamingICFWorkflow._create_section_generator,      *)
(* which run concurrently and put events on one asyncio queue.             *)
(*                                                                         *)
(* The program has 7 sections and total_sections = 7; the model keeps the  *)
(* first NSections names of the list and scales total_sections with it.    *)
(* MaxTokens bounds the tokens streamed in one run, over all sections.     *)
(* Scores are in tenths (0.3 is 3). Texts are sequences of chunks, so that *)
(* string concatenation is sequence concatenation.                         *)
(*                                                                         *)
(* The yielded stream is kept as its projections: out[name] is the         *)
(* subsequence of the yielded events that carry section_name = name, and   *)
(* out[""] the subsequence of the run-level events (complete, error),      *)
(* which carry no section name; last is the event yielded last. The wire   *)
(* stream sse is kept the same way. event_queue is the asyncio queue: put  *)
(* appends, get removes the head. Once the drain loop is left nothing      *)
(* reads the queue any more, and what is put then is not kept.             *)
(*                                                                         *)
(* Spec is one request from the endpoint to the end of its stream,         *)
(* FairSpec the same with the fairness of the event loop. ServiceSpec is   *)
(* two overlapping runs on the one service and its executor, TimedSpec one *)
(* run with time in ticks (WaitTicks is the window of one queue wait),     *)
(* SyncSpec one call of the synchronous generation, AsyncSpec two          *)
(* overlapping non-streaming calls on the service's executor. ContextSpec  *)
(* (get_protocol_context over rankings of up to MaxHits candidates, with   *)
(* NPatterns score patterns), WireSpec (the endpoint's loop over streams   *)
(* of up to MaxEvents events) and StreamSpec (a section's token loop over  *)
(* streams of up to MaxChunks chunks) apply one function to every input.   *)
(* Each specification keeps the variables of the others at their initial   *)
(* values.                                                                 *)
(***************************************************************************)
EXTENDS Integers, Sequences, FiniteSets, TLC

\* ------------------------------------------------------------------ bounds
NSections == 2
MaxTokens == 1
WaitTicks == 1
MaxHits == 11
NPatterns == 3
MaxEvents == 3
MaxChunks == 3

\* ------------------------------------------------------- program constants
search_limit == 10
top_items == 3
min_score == 3

\* ------------------------------------------------------------------- state
VARIABLES
    request,        \* the endpoint called and request.section_name
    collection,     \* request.protocol_collection_name
    search_results, \* what the index search returns for this collection
    pc,             \* position of stream_generator / generate_icf_streaming
    wf,             \* state of workflow_task (_execute_streaming_workflow)
    gen,            \* per section: position and locals of generate_section
    event_queue,    \* the events on the asyncio queue, oldest first
    sections_completed,
    out,            \* events yielded by generate_icf_streaming, by section_name
    last,           \* the event generate_icf_streaming yielded last
    sse,            \* messages yielded by the endpoint, by section_name
    runs,           \* overlapping runs on one service: per run, its state
    executor,       \* the service's ThreadPoolExecutor: worker and work queue
    sync,           \* one call of _generate_icf_sync
    retrieval,      \* one call of get_protocol_context
    wire,           \* the endpoint's loop over the coordinator's events
    stream,         \* one section's token loop in generate_section
    calls,          \* overlapping generate_icf_async / regenerate_section_async
    document_generator  \* the service's DocumentGenerator: _current_document_id

run_vars == <<request, collection, search_results, pc, wf, gen, event_queue,
              sections_completed, out, last, sse>>
service_vars == <<runs, executor>>
sync_vars == <<sync>>
context_vars == <<retrieval>>
wire_vars == <<wire>>
stream_vars == <<stream>>
async_vars == <<calls, document_generator>>
vars == <<run_vars, service_vars, sync_vars, context_vars, wire_vars,
          stream_vars, async_vars>>

\* What no step of a single streaming run changes.
static == <<request, collection, search_results, service_vars, sync_vars,
            context_vars, wire_vars, stream_vars, async_vars>>

ICF_SECTIONS == <<"summary", "background", "participants", "procedures",
                  "alternatives", "risks", "benefits">>

sections == {ICF_SECTIONS[i] : i \in 1..NSections}

total_sections == NSections

\* Collections the vector store holds, and the names a request may carry.
collections == {"PROTO-1"}
CollectionNames == {"PROTO-1", "PROTO-2"}

\* The section names the regeneration endpoint accepts.
valid_sections == {ICF_SECTIONS[i] : i \in 1..Len(ICF_SECTIONS)}

\* The requests: full generation, and regeneration of a known or unknown section.
ICFGenerationRequest == [endpoint |-> "generate-stream", section_name |-> ""]
SectionRegenerationRequest(n) == [endpoint |-> "regenerate-section", section_name |-> n]
Requests == {ICFGenerationRequest}
            \cup {SectionRegenerationRequest(n) : n \in {"summary", "appendix"}}

\* The keyword parameters of generate_icf_streaming, and the keywords each
\* endpoint passes in its call.
Parameters == {"protocol_collection_name", "protocol_metadata"}
Keywords(endpoint) ==
    IF endpoint = "regenerate-section"
    THEN {"protocol_collection_name", "protocol_metadata", "sections_filter"}
    ELSE {"protocol_collection_name", "protocol_metadata"}

\* What the index search may return for a query: hits in index order.
Hit(t, sc) == [text |-> t, score |-> sc]
SearchResults == { <<Hit("p2", 1)>>,
                   <<Hit("p1", 9), Hit("p2", 1), Hit("p3", 3)>> }

\* What the streaming model yields as one chunk: a text delta, or empty content.
Chunks == {<<>>, <<"t">>}
FallbackContent == <<"f">>

\* ------------------------------------------------------------------ events
Event(t, s, c, a, e) ==
    [type |-> t, section_name |-> s, content |-> c, accumulated_content |-> a,
     error |-> e, total_sections |-> 0, completed_sections |-> 0, errors |-> <<>>]

SectionStart(s) == Event("section_start", s, <<>>, <<>>, "")
Token(s, c, a) == Event("token", s, c, a, "")
SectionComplete(s, c) == Event("section_complete", s, c, <<>>, "")
SectionError(s, e) == Event("section_error", s, <<>>, <<>>, e)
RunError(e) == Event("error", "", <<>>, <<>>, e)
Complete(total, completed) ==
    [type |-> "complete", section_name |-> "", content |-> <<>>,
     accumulated_content |-> <<>>, error |-> "", total_sections |-> total,
     completed_sections |-> completed, errors |-> <<>>]
NoEvent == Event("", "", <<>>, <<>>, "")

SearchFailed == "Failed to retrieve context"
GenerationFailed == "Failed to generate section"

\* ----------------------------------------------------------- pure helpers
RECURSIVE FilterHits_above(_, _)
\* Mutant: a hit must score above the threshold.
FilterHits_above(hits, ms) ==
    IF hits = <<>> THEN <<>>
    ELSE IF Head(hits).score > ms
         THEN <<Head(hits)>> \o FilterHits_above(Tail(hits), ms)
         ELSE FilterHits_above(Tail(hits), ms)

RECURSIVE FilterHits(_, _)
FilterHits(hits, ms) ==
    IF hits = <<>> THEN <<>>
    ELSE IF Head(hits).score >= ms
         THEN <<Head(hits)>> \o FilterHits(Tail(hits), ms)
         ELSE FilterHits(Tail(hits), ms)

Take(seq, n) == SubSeq(seq, 1, IF Len(seq) < n THEN Len(seq) ELSE n)

get_protocol_context(hits, ms) ==
    FilterHits(Take(hits, search_limit), ms)

\* Mutant: the chunk replaces the buffer.
Accumulate_replace(section_content, chunk) == chunk

\* section_content += chunk.content
Accumulate(section_content, chunk) == section_content \o chunk

\* Mutant: the passages are joined whether or not there are any.
context_text_joined(s, context_items) ==
    [i \in 1..Len(Take(context_items, top_items)) |-> context_items[i].text]

context_text(s, context_items) ==
    IF context_items = <<>>
    THEN <<"No specific context for ", s>>
    ELSE [i \in 1..Len(Take(context_items, top_items)) |-> context_items[i].text]

\* The messages handed to the model: system prompt of the section, user turn.
Messages(s, ctx) ==
    [system |-> s, human |-> <<"Context: ">> \o ctx \o <<"Generate the ", s>>]

NoMessages == [system |-> "", human |-> <<>>]

\* The server-push message of one yielded event; unknown types are skipped.
WireTypes == {"section_start", "token", "section_complete", "section_error",
              "complete", "error"}

\* The data the endpoint copies from an event into its message; word_count is
\* len(content.split()), the number of chunks of a text kept as its chunks.
Data(e) ==
    CASE e.type = "section_start" -> [section_name |-> e.section_name]
      [] e.type = "token" ->
            [section_name |-> e.section_name, content |-> e.content,
             accumulated_content |-> e.accumulated_content]
      [] e.type = "section_complete" ->
            [section_name |-> e.section_name, content |-> e.content,
             word_count |-> Len(e.content)]
      [] e.type = "section_error" ->
            [section_name |-> e.section_name, error |-> e.error]
      [] e.type = "complete" ->
            [total_sections |-> e.total_sections,
             completed_sections |-> e.completed_sections, errors |-> e.errors]
      [] OTHER -> [error |-> e.error]

\* Mutant: a message for every event, whatever its type.
SSE_unfiltered(e) == <<[event |-> e.type, data |-> Data(e)]>>

SSE(e) ==
    IF e.type \in WireTypes THEN <<[event |-> e.type, data |-> Data(e)]>>
    ELSE <<>>

\* ------------------------------------------------------------------- Init
Names == sections \cup {""}

GenInit == [pc |-> "waiting", context_text |-> <<>>, section_content |-> <<>>,
            ntokens |-> 0, stream_input |-> NoMessages,
            fallback_input |-> NoMessages, fallbacks |-> 0,
            failed_at |-> "", result |-> "", emitted |-> <<>>]

\* No overlapping runs and no synchronous call are part of a single run.
NoService == runs = <<>> /\ executor = <<>>
NoSync == sync = <<>>
NoContext == retrieval = <<>>
NoWire == wire = <<>>
NoStream == stream = <<>>
NoCalls == calls = <<>> /\ document_generator = <<>>

Init ==
    /\ request \in Requests
    /\ collection \in CollectionNames
    /\ search_results \in SearchResults
    /\ pc = "validate"
    /\ wf = "none"
    /\ gen = [s \in sections |-> GenInit]
    /\ event_queue = <<>>
    /\ sections_completed = 0
    /\ out = [n \in Names |-> <<>>]
    /\ last = NoEvent
    /\ sse = [n \in Names |-> <<>>]
    /\ NoService
    /\ NoSync
    /\ NoContext
    /\ NoWire
    /\ NoStream
    /\ NoCalls

\* --------------------------------------------------------------- operators
\* Mutant: the put waits until the drain loop takes the event.
Put_blocking(e) ==
    /\ pc = "drain"
    /\ event_queue' = Append(event_queue, e)

\* event_queue.put(e), seen from the drain loop.
Put(e) ==
    event_queue' = IF pc = "drain" THEN Append(event_queue, e) ELSE event_queue

\* `yield e` in generate_icf_streaming and the endpoint's message for it.
Yield(e) ==
    /\ out' = [out EXCEPT ![e.section_name] = Append(@, e)]
    /\ last' = e
    /\ sse' = [sse EXCEPT ![e.section_name] = @ \o SSE(e)]

RECURSIVE SumTokens(_)
SumTokens(S) ==
    IF S = {} THEN 0
    ELSE LET s == CHOOSE x \in S : TRUE IN gen[s].ntokens + SumTokens(S \ {s})

AllReturned == \A s \in sections : gen[s].pc = "returned"

\* ------------------------------------------------ endpoint and coordinator
\* Mutant: the existence check only asks whether the client answered.
validate_collection_exists_unchecked(collection_name, client_ok) == client_ok

validate_collection_exists(collection_name, client_ok) ==
    client_ok /\ collection_name \in collections

\* stream_generator of either endpoint up to the collection check.
Validate ==
    /\ pc = "validate"
    /\ \E client_ok \in BOOLEAN :
         IF validate_collection_exists(collection, client_ok)
         THEN /\ pc' = IF request.endpoint = "regenerate-section"
                        THEN "section" ELSE "prepare"
              /\ UNCHANGED sse
         ELSE /\ pc' = "rejected"
              /\ sse' = [sse EXCEPT ![""] =
                            Append(@, [event |-> "error",
                                       data |-> [error |-> "Protocol collection not found"]])]
    /\ UNCHANGED <<static, wf, gen, event_queue,
                   sections_completed, out, last>>

\* generate_icf_streaming up to the drain loop: the queue, the workflow, the
\* preliminary get_protocol_context and the background task. A failing search
\* raises into the handler's except, which yields the run-level error.
Prepare ==
    /\ pc = "prepare"
    /\ Keywords(request.endpoint) \subseteq Parameters
    /\ \E search_ok \in BOOLEAN :
         IF search_ok
         THEN /\ wf' = "pending"
              /\ sections_completed' = 0
              /\ pc' = "drain"
              /\ UNCHANGED <<out, last, sse>>
         ELSE /\ Yield(RunError(SearchFailed))
              /\ pc' = "returned"
              /\ UNCHANGED <<wf, sections_completed>>
    /\ UNCHANGED <<static, gen, event_queue>>

\* Mutant: the section name is not checked against the list.
valid_section_name_unchecked(name) == TRUE

\* `request.section_name not in valid_sections`, negated.
valid_section_name(name) == name \in valid_sections

\* The endpoint's one message for a failure before any event was yielded.
Refuse(state, message) ==
    /\ pc' = state
    /\ sse' = [sse EXCEPT ![""] = Append(@, [event |-> "error", data |-> [error |-> message]])]

\* regenerate_icf_section.stream_generator after the collection check: the
\* section name check.
RegenerateSection ==
    /\ pc = "section"
    /\ IF valid_section_name(request.section_name)
       THEN pc' = "prepare" /\ UNCHANGED sse
       ELSE Refuse("rejected", "Invalid section name")
    /\ UNCHANGED <<static, wf, gen, event_queue, sections_completed, out, last>>

\* The call of generate_icf_streaming with a keyword that is no parameter of
\* it (sections_filter): binding the arguments raises TypeError before the
\* body runs, and the endpoint's except reports it.
BindFailure ==
    /\ pc = "prepare"
    /\ ~(Keywords(request.endpoint) \subseteq Parameters)
    /\ Refuse("failed", "Generation failed: unexpected keyword argument")
    /\ UNCHANGED <<static, wf, gen, event_queue, sections_completed, out, last>>

\* The counter update of the drain loop for one received event.
Counted(n, event) ==
    IF event.type = "section_complete" THEN n + 1
    ELSE IF event.type = "error" THEN total_sections
    ELSE n

\* Mutant: the queue hands out the event put last.
DrainGet_lifo ==
    /\ pc = "drain"
    /\ event_queue # <<>>
    /\ LET event == event_queue[Len(event_queue)] IN
         /\ event_queue' = SubSeq(event_queue, 1, Len(event_queue) - 1)
         /\ sections_completed' = Counted(sections_completed, event)
         /\ Yield(event)
         /\ pc' = IF Counted(sections_completed, event) < total_sections
                  THEN "drain" ELSE "cleanup"
    /\ UNCHANGED <<static, wf, gen>>

\* One iteration of the drain loop in which event_queue.get() returns.
DrainGet ==
    /\ pc = "drain"
    /\ event_queue # <<>>
    /\ LET event == Head(event_queue) IN
         /\ event_queue' = Tail(event_queue)
         /\ sections_completed' = Counted(sections_completed, event)
         /\ Yield(event)
         /\ pc' = IF Counted(sections_completed, event) < total_sections
                  THEN "drain" ELSE "cleanup"
    /\ UNCHANGED <<static, wf, gen>>

\* Mutant: event_queue.get() is awaited without a timeout.
DrainTimeout_never ==
    /\ pc = "drain"
    /\ FALSE
    /\ UNCHANGED vars

\* One iteration in which the wait on the empty queue times out.
DrainTimeout ==
    /\ pc = "drain"
    /\ event_queue = <<>>
    /\ Yield(RunError("Generation timeout - LLM taking too long to respond"))
    /\ pc' = "cleanup"
    /\ UNCHANGED <<static, wf, gen, event_queue, sections_completed>>

\* After the loop: wait for workflow_task, at most 10 s (a task the executor
\* has not started yet is cancelled by the timed-out wait; a running
\* workflow.invoke keeps its threads), then the completion event.
Finish ==
    /\ pc = "cleanup"
    /\ wf' = IF wf = "pending" THEN "cancelled" ELSE wf
    /\ Yield(Complete(total_sections, sections_completed))
    /\ pc' = "returned"
    /\ UNCHANGED <<static, gen, event_queue, sections_completed>>

\* ------------------------------------------------------- background workflow
\* The executor runs workflow.invoke: the graph starts every section node.
WorkflowStart ==
    /\ wf = "pending"
    /\ wf' = "running"
    /\ gen' = [s \in sections |-> [gen[s] EXCEPT !.pc = "retrieve"]]
    /\ UNCHANGED <<static, pc, event_queue,
                   sections_completed, out, last, sse>>

\* workflow.invoke raises before the nodes run: _execute_streaming_workflow
\* puts the run-level error event.
WorkflowFail ==
    /\ wf = "pending"
    /\ wf' = "failed"
    /\ Put(RunError("Workflow execution failed"))
    /\ UNCHANGED <<static, pc, gen, sections_completed,
                   out, last, sse>>

\* ------------------------------------------------------- section generators
GenUnchanged ==
    UNCHANGED <<static, pc, wf, sections_completed, out, last, sse>>

\* The generator of section s, with locals g, puts event e.
Emit(s, g, e) ==
    /\ Put(e)
    /\ gen' = [gen EXCEPT ![s] = [g EXCEPT !.emitted = Append(@, e)]]

\* Mutant: the outer except is missing, the exception leaves the generator.
HandleFailure_raises(s, g, message) ==
    /\ gen' = [gen EXCEPT ![s] = [g EXCEPT !.pc = "returned", !.result = "raised"]]
    /\ UNCHANGED event_queue

\* The outer except of generate_section: one section_error, the state returned.
HandleFailure(s, g, message) ==
    Emit(s, [g EXCEPT !.pc = "returned", !.result = "state"], SectionError(s, message))

\* Context retrieval succeeds; the messages are built and section_start is put.
GenStart(s) ==
    /\ gen[s].pc = "retrieve"
    /\ LET ctx == context_text(s, get_protocol_context(search_results, min_score)) IN
         Emit(s, [gen[s] EXCEPT !.pc = "stream",
                                !.context_text = ctx,
                                !.stream_input = Messages(s, ctx)],
              SectionStart(s))
    /\ GenUnchanged

\* Mutant: section_start is put before retrieval, so a retrieval failure
\* follows a section_start.
GenRetrieveFail_started(s) ==
    /\ gen[s].pc = "retrieve"
    /\ event_queue' = IF pc = "drain"
                      THEN event_queue \o <<SectionStart(s), SectionError(s, SearchFailed)>>
                      ELSE event_queue
    /\ gen' = [gen EXCEPT ![s].pc = "returned", ![s].result = "state",
                          ![s].failed_at = "retrieval",
                          ![s].emitted = @ \o <<SectionStart(s), SectionError(s, SearchFailed)>>]
    /\ GenUnchanged

\* Context retrieval raises: the outer except, before any section_start.
GenRetrieveFail(s) ==
    /\ gen[s].pc = "retrieve"
    /\ HandleFailure(s, [gen[s] EXCEPT !.failed_at = "retrieval"], SearchFailed)
    /\ GenUnchanged

\* One chunk of self.llm.stream(messages); a chunk without content is skipped.
GenChunk(s) ==
    /\ gen[s].pc = "stream"
    /\ \E chunk \in Chunks :
         IF chunk # <<>>
         THEN /\ SumTokens(sections) < MaxTokens
              /\ Emit(s, [gen[s] EXCEPT
                             !.section_content = Accumulate(@, chunk),
                             !.ntokens = @ + 1],
                      Token(s, chunk, Accumulate(gen[s].section_content, chunk)))
         ELSE UNCHANGED <<gen, event_queue>>
    /\ GenUnchanged

\* Mutant: the stream's end puts section_complete and stays in the loop.
GenStreamEnd_again(s) ==
    /\ gen[s].pc = "stream"
    /\ Emit(s, gen[s], SectionComplete(s, gen[s].section_content))
    /\ GenUnchanged

\* The stream ends: section_complete with the accumulated text.
GenStreamEnd(s) ==
    /\ gen[s].pc = "stream"
    /\ Emit(s, [gen[s] EXCEPT !.pc = "returned", !.result = "state"],
            SectionComplete(s, gen[s].section_content))
    /\ GenUnchanged

\* Mutant: the fallback text is not assigned, section_complete carries the
\* partial stream.
AfterFallback_partial(s, g, text) ==
    Emit(s, [g EXCEPT !.pc = "returned", !.result = "state"],
         SectionComplete(s, g.section_content))

\* The generator after the non-streaming fallback call returned `text`.
AfterFallback(s, g, text) ==
    Emit(s, [g EXCEPT !.section_content = text, !.pc = "returned", !.result = "state"],
         SectionComplete(s, text))

\* The locals after the stream raised and _generate_section_with_llm was called.
Fallback(s) == [gen[s] EXCEPT !.failed_at = "stream",
                              !.fallbacks = @ + 1,
                              !.fallback_input = Messages(s, gen[s].context_text)]

\* The stream raises, before or after some chunks, and the fallback returns.
GenFallbackOk(s) ==
    /\ gen[s].pc = "stream"
    /\ AfterFallback(s, Fallback(s), FallbackContent)
    /\ GenUnchanged

\* The stream raises and the fallback raises too: the outer except.
GenFallbackFail(s) ==
    /\ gen[s].pc = "stream"
    /\ HandleFailure(s, [Fallback(s) EXCEPT !.failed_at = "fallback"], GenerationFailed)
    /\ GenUnchanged

Next ==
    \/ Validate
    \/ Prepare
    \/ RegenerateSection
    \/ BindFailure
    \/ DrainGet
    \/ DrainTimeout
    \/ Finish
    \/ WorkflowStart
    \/ WorkflowFail
    \/ \E s \in sections : GenStart(s)
    \/ \E s \in sections : GenRetrieveFail(s)
    \/ \E s \in sections : GenChunk(s)
    \/ \E s \in sections : GenStreamEnd(s)
    \/ \E s \in sections : GenFallbackOk(s)
    \/ \E s \in sections : GenFallbackFail(s)

Spec == Init /\ [][Next]_vars

\* The endpoint's generator and the coordinator are coroutines of the event
\* loop, which resumes each as soon as what it awaits is done; every await of
\* the drain loop and of the cleanup is under asyncio.wait_for, whose timer
\* ends it. Nothing is assumed of the executor or the section generators.
Coordinator ==
    \/ Validate
    \/ Prepare
    \/ RegenerateSection
    \/ BindFailure
    \/ DrainGet
    \/ DrainTimeout
    \/ Finish

FairSpec == Spec /\ WF_vars(Coordinator)


\* ============================================== overlapping runs, one service
\* get_icf_service returns one ICFGenerationService for all requests; its
\* executor is ThreadPoolExecutor(max_workers=1). Each call of
\* generate_icf_streaming is a run with its own queue, workflow and task.
\* This view keeps, per run, what the coordinator and the executor decide on.
\* A section generator is one step that puts its section_start and its
\* terminal event (tokens, and the interleaving of the sections' events on
\* the run's queue, are left to Spec). Kept are the run-level events
\* yielded, and of the section events yielded their origins: the run whose
\* workflow put them and that workflow's document_id. Runs are named in the
\* order of their calls. Time is in ticks: waited is how long the current
\* event_queue.get() has been waiting, elapsed how long the drain loop has
\* run (counted up to WaitTicks + 1); only TimedSpec lets time pass.
RunIds == {"r1", "r2"}
Documents == {"PROTO-1", "PROTO-3"}
NoWorker == ""

\* Run q was called before run r.
Before(q, r) == <<q, r>> = <<"r1", "r2">>

RunEvent(t, s, r, doc, e, n) ==
    [type |-> t, section_name |-> s, run |-> r, document_id |-> doc,
     error |-> e, completed_sections |-> n]

RunTimeout(r) ==
    RunEvent("error", "", r, "", "Generation timeout - LLM taking too long to respond", 0)

RunInit(doc) ==
    [document_id |-> doc, pc |-> "idle", wf |-> "none",
     gen |-> [s \in sections |-> "waiting"], event_queue |-> <<>>,
     sections_completed |-> 0, yielded |-> {}, origins |-> {},
     waited |-> 0, elapsed |-> 0]

Origin(e) == [run |-> e.run, document_id |-> e.document_id]

\* Nothing of the single-run view moves while overlapping runs are explored.
NoRun ==
    /\ request = ICFGenerationRequest
    /\ collection = "PROTO-1"
    /\ search_results = <<>>
    /\ pc = "idle"
    /\ wf = "none"
    /\ gen = [s \in sections |-> GenInit]
    /\ event_queue = <<>>
    /\ sections_completed = 0
    /\ out = [n \in Names |-> <<>>]
    /\ last = NoEvent
    /\ sse = [n \in Names |-> <<>>]

ServiceInit ==
    /\ \E doc \in Documents :
         runs = [r \in RunIds |-> RunInit(IF r = "r1" THEN "PROTO-1" ELSE doc)]
    /\ executor = [worker |-> NoWorker, work_queue |-> <<>>]
    /\ NoRun
    /\ NoSync
    /\ NoContext
    /\ NoWire
    /\ NoStream
    /\ NoCalls

ServiceUnchanged == UNCHANGED <<run_vars, sync_vars, context_vars, wire_vars,
                                stream_vars, async_vars>>

RECURSIVE Without(_, _)
\* The work queue without the items of run r (a cancelled future is skipped).
Without(q, r) ==
    IF q = <<>> THEN <<>>
    ELSE IF Head(q) = r THEN Without(Tail(q), r)
         ELSE <<Head(q)>> \o Without(Tail(q), r)

\* Mutant: the queue is an attribute of the shared service, so a put lands on
\* the queue some run is draining.
RunPut_shared(rs, r, e) ==
    LET q == CHOOSE x \in RunIds :
                 rs[x].pc = "drain" /\ \A y \in RunIds : rs[y].pc = "drain" => ~Before(y, x)
    IN  IF \E x \in RunIds : rs[x].pc = "drain"
        THEN [rs EXCEPT ![q].event_queue = Append(@, e)]
        ELSE rs

\* self.event_queue.put(e) by the workflow of run r, on the run states rs.
RunPut(rs, r, e) ==
    IF rs[r].pc = "drain"
    THEN [rs EXCEPT ![r].event_queue = Append(@, e)]
    ELSE rs

RECURSIVE RunPutAll(_, _, _)
\* The puts of one generator, in their order.
RunPutAll(rs, r, events) ==
    IF events = <<>> THEN rs
    ELSE RunPutAll(RunPut(rs, r, Head(events)), r, Tail(events))

\* generate_icf_streaming of run r up to the drain loop: its queue, its
\* workflow, the preliminary search, and the task that submits
\* workflow.invoke to the service's executor.
RunPrepare(r) ==
    /\ runs[r].pc = "idle"
    /\ \A q \in RunIds : Before(q, r) => runs[q].pc # "idle"
    /\ \E search_ok \in BOOLEAN :
         IF search_ok
         THEN /\ runs' = [runs EXCEPT ![r].pc = "drain", ![r].wf = "pending"]
              /\ executor' = [executor EXCEPT !.work_queue = Append(@, r)]
         ELSE /\ runs' = [runs EXCEPT ![r].pc = "returned",
                                      ![r].yielded = @ \cup
                                          {RunEvent("error", "", r, "", SearchFailed, 0)}]
              /\ UNCHANGED executor
    /\ ServiceUnchanged

\* The executor's one worker thread is free and takes the oldest work item:
\* workflow.invoke of run r starts every section node.
ExecutorStart(r) ==
    /\ executor.worker = NoWorker
    /\ executor.work_queue # <<>>
    /\ Head(executor.work_queue) = r
    /\ executor' = [worker |-> r, work_queue |-> Tail(executor.work_queue)]
    /\ runs' = [runs EXCEPT ![r].wf = "running",
                            ![r].gen = [s \in sections |-> "running"]]
    /\ ServiceUnchanged

\* The worker takes the item of run r and workflow.invoke raises before the
\* nodes run: the task puts the run-level error on the run's queue.
ExecutorFail(r) ==
    /\ executor.worker = NoWorker
    /\ executor.work_queue # <<>>
    /\ Head(executor.work_queue) = r
    /\ executor' = [executor EXCEPT !.work_queue = Tail(@)]
    /\ runs' = RunPut([runs EXCEPT ![r].wf = "failed"], r,
                      RunEvent("error", "", r, "", "Workflow execution failed", 0))
    /\ ServiceUnchanged

\* Every section node of run r has returned: workflow.invoke returns and the
\* worker thread is free again.
ExecutorDone(r) ==
    /\ executor.worker = r
    /\ \A s \in sections : runs[r].gen[s] = "returned"
    /\ executor' = [executor EXCEPT !.worker = NoWorker]
    /\ runs' = [runs EXCEPT ![r].wf = "done"]
    /\ ServiceUnchanged

\* The events one section generator puts from its start to its return:
\* section_error alone when retrieval raised, else section_start and then
\* section_complete, or section_error when stream and fallback both raised.
SectionEvents(r, s, doc) ==
    { <<RunEvent("section_error", s, r, doc, SearchFailed, 0)>>,
      <<RunEvent("section_start", s, r, doc, "", 0),
        RunEvent("section_complete", s, r, doc, "", 0)>>,
      <<RunEvent("section_start", s, r, doc, "", 0),
        RunEvent("section_error", s, r, doc, GenerationFailed, 0)>> }

\* The generator of section s of run r runs from its start to its return.
RunGenerate(r, s) ==
    /\ runs[r].gen[s] = "running"
    /\ \E events \in SectionEvents(r, s, runs[r].document_id) :
         runs' = RunPutAll([runs EXCEPT ![r].gen[s] = "returned"], r, events)
    /\ UNCHANGED executor
    /\ ServiceUnchanged

\* One iteration of the drain loop of run r in which event_queue.get() returns;
\* the next wait starts with a new timer.
RunDrainGet(r) ==
    /\ runs[r].pc = "drain"
    /\ runs[r].event_queue # <<>>
    /\ LET event == Head(runs[r].event_queue)
           n == Counted(runs[r].sections_completed, event) IN
         runs' = [runs EXCEPT ![r].event_queue = Tail(@),
                              ![r].sections_completed = n,
                              ![r].yielded = IF event.section_name = ""
                                             THEN @ \cup {event} ELSE @,
                              ![r].origins = IF event.section_name = ""
                                             THEN @ ELSE @ \cup {Origin(event)},
                              ![r].waited = 0,
                              ![r].pc = IF n < total_sections THEN "drain" ELSE "cleanup"]
    /\ UNCHANGED executor
    /\ ServiceUnchanged

\* The wait of run r on its empty queue times out: the error is yielded and
\* the loop is left.
RunDrainTimeout(r) ==
    /\ runs[r].pc = "drain"
    /\ runs[r].event_queue = <<>>
    /\ runs' = [runs EXCEPT ![r].yielded = @ \cup {RunTimeout(r)},
                            ![r].pc = "cleanup"]
    /\ UNCHANGED executor
    /\ ServiceUnchanged

\* After the loop of run r: the bounded wait for workflow_task, whose timeout
\* cancels the task (a work item the worker has not taken is cancelled with
\* it and will be skipped; a running workflow.invoke is not stopped), then
\* the completion event.
RunFinish(r) ==
    /\ runs[r].pc = "cleanup"
    /\ runs' = [runs EXCEPT ![r].wf = IF @ = "pending" THEN "cancelled" ELSE @,
                            ![r].yielded = @ \cup
                                {RunEvent("complete", "", r, "", "",
                                          runs[r].sections_completed)},
                            ![r].pc = "returned"]
    /\ executor' = IF runs[r].wf = "pending"
                   THEN [executor EXCEPT !.work_queue = Without(@, r)]
                   ELSE executor
    /\ ServiceUnchanged

ServiceNext ==
    \/ \E r \in RunIds : RunPrepare(r)
    \/ \E r \in RunIds : ExecutorStart(r)
    \/ \E r \in RunIds : ExecutorFail(r)
    \/ \E r \in RunIds : ExecutorDone(r)
    \/ \E r \in RunIds, s \in sections : RunGenerate(r, s)
    \/ \E r \in RunIds : RunDrainGet(r)
    \/ \E r \in RunIds : RunDrainTimeout(r)
    \/ \E r \in RunIds : RunFinish(r)

ServiceSpec == ServiceInit /\ [][ServiceNext]_vars

\* ------------------------------------------------------- one run, with time
Waiting(r) == runs[r].pc = "drain" /\ runs[r].event_queue = <<>>

\* One tick passes while run r is in its drain loop. A wait that has lasted
\* the whole window ends before more time passes.
Tick(r) ==
    /\ runs[r].pc = "drain"
    /\ Waiting(r) => runs[r].waited < WaitTicks
    /\ Waiting(r) \/ runs[r].elapsed <= WaitTicks
    /\ runs' = [runs EXCEPT ![r].waited = IF Waiting(r) THEN @ + 1 ELSE @,
                            ![r].elapsed = IF @ <= WaitTicks THEN @ + 1 ELSE @]
    /\ UNCHANGED executor
    /\ ServiceUnchanged

\* Mutant: one timer for the whole run instead of one per wait.
Expired_total(r) == runs[r].elapsed >= WaitTicks

\* The timer of asyncio.wait_for(event_queue.get(), timeout) has run out.
Expired(r) == runs[r].waited = WaitTicks

\* wait_for raises TimeoutError in the drain loop of run r.
TimedOut(r) == Expired(r) /\ RunDrainTimeout(r)

TimedRun == "r1"

TimedNext ==
    \/ RunPrepare(TimedRun)
    \/ ExecutorStart(TimedRun)
    \/ ExecutorFail(TimedRun)
    \/ ExecutorDone(TimedRun)
    \/ \E s \in sections : RunGenerate(TimedRun, s)
    \/ RunDrainGet(TimedRun)
    \/ TimedOut(TimedRun)
    \/ RunFinish(TimedRun)
    \/ Tick(TimedRun)

TimedSpec == ServiceInit /\ [][TimedNext]_vars


\* ================================================= the synchronous generation
\* One call of _generate_icf_sync: the preliminary search, ICFWorkflow.invoke
\* with one node per section (all seven), the response built from the nodes'
\* results, and the check for missing sections.
workflow_sections == {ICF_SECTIONS[i] : i \in 1..Len(ICF_SECTIONS)}

required_sections_fewer == {"summary", "background", "participants",
                            "procedures", "alternatives", "risks"}

required_sections == {"summary", "background", "participants", "procedures",
                      "alternatives", "risks", "benefits"}

MissingSection(s) == <<"Missing section: ", s>>

MissingRequired == "Missing required ICF sections"

SyncInit ==
    /\ sync = [pc |-> "context",
               nodes |-> [s \in workflow_sections |-> "pending"],
               sections |-> {}, errors |-> {}, status |-> "", error |-> ""]
    /\ NoRun
    /\ NoService
    /\ NoContext
    /\ NoWire
    /\ NoStream
    /\ NoCalls

SyncUnchanged == UNCHANGED <<run_vars, service_vars, context_vars, wire_vars,
                             stream_vars, async_vars>>

\* The preliminary get_protocol_context: it returns (an empty result gets a
\* placeholder), or it raises and the call raises DocumentGenerationError.
SyncContext ==
    /\ sync.pc = "context"
    /\ \E search_ok \in BOOLEAN :
         sync' = [sync EXCEPT !.pc = IF search_ok THEN "invoke" ELSE "raised",
                              !.error = IF search_ok THEN ""
                                        ELSE "Failed to retrieve context"]
    /\ SyncUnchanged

\* The node of section s: {s: [section_content]}, or {} when its retrieval or
\* its model call raised (the node's except logs and returns nothing).
SyncNode(s) ==
    /\ sync.pc = "invoke"
    /\ sync.nodes[s] = "pending"
    /\ \E ok \in BOOLEAN :
         sync' = [sync EXCEPT !.nodes[s] = IF ok THEN "content" ELSE "empty"]
    /\ SyncUnchanged

\* The sections of invoke's response: those whose list in the result is not
\* empty.
InvokeSections(result) == {s \in workflow_sections : result[s] = "content"}

InvokeErrors_none(result) == {}

\* The errors of invoke's response: one "Missing section" for each section
\* whose list in the result is empty.
InvokeErrors(result) ==
    {MissingSection(s) : s \in {x \in workflow_sections : result[x] = "empty"}}

\* WorkflowBase.invoke after the graph has run.
SyncCollect ==
    /\ sync.pc = "invoke"
    /\ \A s \in workflow_sections : sync.nodes[s] # "pending"
    /\ sync' = [sync EXCEPT !.pc = "collected",
                            !.sections = InvokeSections(sync.nodes),
                            !.errors = InvokeErrors(sync.nodes)]
    /\ SyncUnchanged

missing_sections_first(secs) ==
    IF ICF_SECTIONS[1] \in secs THEN {} ELSE {ICF_SECTIONS[1]}

missing_sections(secs) == required_sections \ secs

\* _generate_icf_sync after invoke: a required section that is not among the
\* sections raises; otherwise the response, with its status.
SyncRespond ==
    /\ sync.pc = "collected"
    /\ IF missing_sections(sync.sections) # {}
       THEN sync' = [sync EXCEPT !.pc = "raised", !.error = MissingRequired]
       ELSE sync' = [sync EXCEPT !.pc = "returned",
                                 !.status = IF sync.errors = {} THEN "completed"
                                            ELSE "completed_with_warnings"]
    /\ SyncUnchanged

SyncNext ==
    \/ SyncContext
    \/ \E s \in workflow_sections : SyncNode(s)
    \/ SyncCollect
    \/ SyncRespond

SyncSpec == SyncInit /\ [][SyncNext]_vars

\* ================================================= the retrieval of passages
\* One call of DocumentGenerator.get_protocol_context. candidates is the
\* index's ranking for the query, best first as the index orders it; the
\* search returns its first search_limit entries. Pattern p gives candidate i
\* the score (i * p) % 7, so that rankings with equal, rising and falling
\* scores all occur.
MinScores == {2, 3, 5}

Candidates(n, p) == [i \in 1..n |-> Hit(i, (i * p) % 7)]

ContextInit ==
    /\ \E n \in 0..MaxHits, p \in 1..NPatterns, ms \in MinScores :
         retrieval = [pc |-> "call", candidates |-> Candidates(n, p),
                      min_score |-> ms, search |-> "", context |-> <<>>,
                      error |-> ""]
    /\ NoRun
    /\ NoService
    /\ NoSync
    /\ NoWire
    /\ NoStream
    /\ NoCalls

ContextUnchanged == UNCHANGED <<run_vars, service_vars, sync_vars, wire_vars,
                                stream_vars, async_vars>>

\* The embedding and the search succeed: the loop over the hits, and return.
ContextReturn ==
    /\ retrieval.pc = "call"
    /\ retrieval' = [retrieval EXCEPT
                       !.pc = "returned",
                       !.search = "ok",
                       !.context = get_protocol_context(retrieval.candidates,
                                                        retrieval.min_score)]
    /\ ContextUnchanged

\* The embedding or the search raises: the except raises
\* DocumentGenerationError.
ContextRaise ==
    /\ retrieval.pc = "call"
    /\ retrieval' = [retrieval EXCEPT !.pc = "raised", !.search = "failed",
                                      !.error = SearchFailed]
    /\ ContextUnchanged

ContextNext == ContextReturn \/ ContextRaise

ContextSpec == ContextInit /\ [][ContextNext]_vars

\* ================================================== the endpoint's messages
\* The loop of stream_generator over what generate_icf_streaming yields, as
\* a function of that stream: wire.events is the stream, wire.i the event the
\* loop is at, wire.sent the messages yielded so far. The streams are all
\* sequences of at most MaxEvents events, one of each type and one of a type
\* the endpoint does not know.
StreamEvents ==
    {SectionStart("summary"),
     Token("summary", <<"t">>, <<"t">>),
     SectionComplete("summary", <<"t", "u">>),
     SectionError("summary", GenerationFailed),
     Complete(total_sections, 1),
     RunError("Workflow execution failed"),
     Event("progress", "summary", <<>>, <<>>, "")}

Streams == UNION {[1..n -> StreamEvents] : n \in 0..MaxEvents}

WireInit ==
    /\ \E events \in Streams :
         wire = [pc |-> "loop", events |-> events, i |-> 1, sent |-> <<>>]
    /\ NoRun
    /\ NoService
    /\ NoSync
    /\ NoContext
    /\ NoStream
    /\ NoCalls

WireUnchanged == UNCHANGED <<run_vars, service_vars, sync_vars, context_vars,
                             stream_vars, async_vars>>

\* One iteration of `async for section_result in ...`: the message of the
\* event is yielded, or the event is skipped.
WireStep ==
    /\ wire.pc = "loop"
    /\ wire.i <= Len(wire.events)
    /\ wire' = [wire EXCEPT !.i = @ + 1,
                            !.sent = @ \o SSE(wire.events[wire.i])]
    /\ WireUnchanged

\* The coordinator's generator is exhausted: the endpoint's stream ends.
WireEnd ==
    /\ wire.pc = "loop"
    /\ wire.i > Len(wire.events)
    /\ wire' = [wire EXCEPT !.pc = "done"]
    /\ WireUnchanged

WireNext == WireStep \/ WireEnd

WireSpec == WireInit /\ [][WireNext]_vars

\* ===================================================== one section's stream
\* The token loop of generate_section for one section, as a function of what
\* the model streams: stream.chunks are the contents of the chunks (empty
\* contents included), stream.i the chunk the loop is at, stream.emitted the
\* events put so far, section_start left out.
ChunkContents == {<<>>, <<"a">>, <<"b">>}

ChunkStreams == UNION {[1..n -> ChunkContents] : n \in 0..MaxChunks}

StreamedSection == "summary"

StreamInit ==
    /\ \E chunks \in ChunkStreams :
         stream = [pc |-> "loop", chunks |-> chunks, i |-> 1,
                   section_content |-> <<>>, emitted |-> <<>>]
    /\ NoRun
    /\ NoService
    /\ NoSync
    /\ NoContext
    /\ NoWire
    /\ NoCalls

StreamUnchanged == UNCHANGED <<run_vars, service_vars, sync_vars, context_vars,
                               wire_vars, async_vars>>

\* One iteration of `for chunk in self.llm.stream(messages)`: a chunk with
\* content is added to the buffer and put as a token, one without is passed.
StreamChunk ==
    /\ stream.pc = "loop"
    /\ stream.i <= Len(stream.chunks)
    /\ LET chunk == stream.chunks[stream.i]
           content == Accumulate(stream.section_content, chunk)
       IN stream' = IF chunk # <<>>
                    THEN [stream EXCEPT
                            !.i = @ + 1,
                            !.section_content = content,
                            !.emitted = Append(@, Token(StreamedSection, chunk,
                                                        content))]
                    ELSE [stream EXCEPT !.i = @ + 1]
    /\ StreamUnchanged

\* The stream is exhausted: section_complete with the buffer.
StreamEnd ==
    /\ stream.pc = "loop"
    /\ stream.i > Len(stream.chunks)
    /\ stream' = [stream EXCEPT
                    !.pc = "complete",
                    !.emitted = Append(@, SectionComplete(StreamedSection,
                                                          stream.section_content))]
    /\ StreamUnchanged

\* The stream raises at the chunk the loop is at: the fallback call's text
\* replaces the buffer, or the fallback raises too and the section fails.
StreamRaise ==
    /\ stream.pc = "loop"
    /\ \E fallback_ok \in BOOLEAN :
         stream' = IF fallback_ok
                   THEN [stream EXCEPT
                           !.pc = "fallback",
                           !.section_content = FallbackContent,
                           !.emitted = Append(@, SectionComplete(StreamedSection,
                                                                 FallbackContent))]
                   ELSE [stream EXCEPT
                           !.pc = "failed",
                           !.emitted = Append(@, SectionError(StreamedSection,
                                                              GenerationFailed))]
    /\ StreamUnchanged

StreamNext == StreamChunk \/ StreamEnd \/ StreamRaise

StreamSpec == StreamInit /\ [][StreamNext]_vars

\* ============================================ overlapping non-streaming calls
\* Two calls of generate_icf_async / regenerate_section_async on the one
\* service. Each hands its synchronous function to the service's executor;
\* _generate_icf_sync makes ICFWorkflow.invoke store the call's collection
\* name on the shared DocumentGenerator, and the section nodes read it from
\* there; _regenerate_section_sync retrieves with its own argument.
\* calls[c].nodes[s] is the collection the node of section s retrieved from,
\* "" before it has.
CallIds == {"c1", "c2"}
CallKinds == {"generate", "regenerate"}

CallInit(kind, doc) ==
    [kind |-> kind, collection |-> doc, pc |-> "idle",
     nodes |-> [s \in sections |-> ""]]

AsyncInit ==
    /\ \E k1, k2 \in CallKinds, doc \in Documents :
         calls = [c \in CallIds |->
                    IF c = "c1" THEN CallInit(k1, "PROTO-1") ELSE CallInit(k2, doc)]
    /\ document_generator = [current_document_id |-> ""]
    /\ runs = <<>>
    /\ executor = [worker |-> NoWorker, work_queue |-> <<>>]
    /\ NoRun
    /\ NoSync
    /\ NoContext
    /\ NoWire
    /\ NoStream

AsyncUnchanged == UNCHANGED <<run_vars, runs, sync_vars, context_vars,
                              wire_vars, stream_vars>>

\* run_in_executor(self.executor, ...): the work item joins the queue.
AsyncCall(c) ==
    /\ calls[c].pc = "idle"
    /\ calls' = [calls EXCEPT ![c].pc = "queued"]
    /\ executor' = [executor EXCEPT !.work_queue = Append(@, c)]
    /\ UNCHANGED document_generator
    /\ AsyncUnchanged

\* Mutant: the executor has a thread for every work item.
WorkerIdle_always == TRUE

\* ThreadPoolExecutor(max_workers=1): the one worker thread is idle.
WorkerIdle == executor.worker = NoWorker

\* The worker takes the oldest work item and begins its function.
WorkerStart(c) ==
    /\ WorkerIdle
    /\ executor.work_queue # <<>>
    /\ Head(executor.work_queue) = c
    /\ executor' = [worker |-> c, work_queue |-> Tail(executor.work_queue)]
    /\ calls' = [calls EXCEPT ![c].pc = "sync"]
    /\ UNCHANGED document_generator
    /\ AsyncUnchanged

\* _generate_icf_sync reaches invoke, which stores document_id on the
\* document generator before the graph runs.
InvokeStore(c) ==
    /\ calls[c].pc = "sync"
    /\ calls[c].kind = "generate"
    /\ document_generator' =
          [document_generator EXCEPT !.current_document_id = calls[c].collection]
    /\ calls' = [calls EXCEPT ![c].pc = "invoke"]
    /\ UNCHANGED executor
    /\ AsyncUnchanged

\* The node of section s reads _current_document_id and retrieves from it.
NodeRetrieve(c, s) ==
    /\ calls[c].pc = "invoke"
    /\ calls[c].nodes[s] = ""
    /\ calls' = [calls EXCEPT
                   ![c].nodes[s] = document_generator.current_document_id]
    /\ UNCHANGED <<document_generator, executor>>
    /\ AsyncUnchanged

\* _regenerate_section_sync retrieves with the collection name it was given.
RegenerateRetrieve(c, s) ==
    /\ calls[c].pc = "sync"
    /\ calls[c].kind = "regenerate"
    /\ calls' = [calls EXCEPT ![c].pc = "retrieved",
                              ![c].nodes[s] = calls[c].collection]
    /\ UNCHANGED <<document_generator, executor>>
    /\ AsyncUnchanged

\* The function returns (or raises): the worker thread is idle again.
AsyncReturn(c) ==
    /\ \/ calls[c].pc = "invoke" /\ \A s \in sections : calls[c].nodes[s] # ""
       \/ calls[c].pc = "retrieved"
    /\ calls' = [calls EXCEPT ![c].pc = "returned"]
    /\ executor' = [executor EXCEPT
                      !.worker = IF @ = c THEN NoWorker ELSE @]
    /\ UNCHANGED document_generator
    /\ AsyncUnchanged

AsyncNext ==
    \E c \in CallIds :
        \/ AsyncCall(c)
        \/ WorkerStart(c)
        \/ InvokeStore(c)
        \/ \E s \in sections : NodeRetrieve(c, s)
        \/ \E s \in sections : RegenerateRetrieve(c, s)
        \/ AsyncReturn(c)

AsyncSpec == AsyncInit /\ [][AsyncNext]_vars


\* ================================================================== claims
TerminalTypes == {"section_complete", "section_error"}

Types(seq) == [i \in 1..Len(seq) |-> seq[i].type]

Count(seq, T) == Cardinality({i \in 1..Len(seq) : seq[i].type \in T})

RECURSIVE SectionTerminals(_)
\* The number of section_complete and section_error events yielded for S.
SectionTerminals(S) ==
    IF S = {} THEN 0
    ELSE LET s == CHOOSE x \in S : TRUE IN
         Count(out[s], TerminalTypes) + SectionTerminals(S \ {s})

Succeeded(s) == gen[s].pc = "returned" /\ gen[s].failed_at \in {"", "stream"}
Failed(s) == gen[s].pc = "returned" /\ gen[s].failed_at \in {"retrieval", "fallback"}

\* Every event the generators put was yielded: no wait timed out while a
\* generator still had an event to put.
AllYielded == \A s \in sections : out[s] = gen[s].emitted

\* C1: a run that has ended yielded exactly one run-level terminal event
\* (complete or error), and that event is the last one of the stream.
C1_OneTerminalLast ==
    pc = "returned" => (Len(out[""]) = 1 /\ last = out[""][1])

\* C2: in a run where exactly one section generator failed and all others
\* succeeded, and every event they put was yielded, the run ends with
\* complete, completed_sections = total_sections, and no run-level error.
C2_SectionErrorCounts ==
    ( /\ pc = "returned"
      /\ AllYielded
      /\ Cardinality({s \in sections : Failed(s)}) = 1
      /\ \A s \in sections : Failed(s) \/ Succeeded(s) )
    => ( /\ last.type = "complete"
         /\ last.completed_sections = last.total_sections
         /\ Count(out[""], {"error"}) = 0 )

\* C3: when complete is yielded, the section_complete and section_error
\* events yielded before it number total_sections.
C3_CompleteCountsAll ==
    last.type = "complete" => SectionTerminals(sections) = last.total_sections

\* C4: the errors field of complete lists the message of every section_error
\* that was yielded.
C4_ErrorsListed ==
    last.type = "complete" =>
        \A s \in sections : \A i \in 1..Len(out[s]) :
            out[s][i].type = "section_error" =>
                \E j \in 1..Len(last.errors) : last.errors[j] = out[s][i].error

\* The ordering law of one section's events.
Ordered(seq) ==
    /\ \A i, j \in 1..Len(seq) :
         (seq[i].type = "section_start" /\ seq[j].type = "token") => i < j
    /\ \A i \in 1..Len(seq) : seq[i].type \in TerminalTypes => i = Len(seq)

\* C5: the events of one section, as put and as yielded, are ordered:
\* section_start before every token, every token before the one terminal
\* event (section_complete or section_error), nothing after it; and the
\* yielded events of a section are a prefix of the ones it put.
C5_SectionOrder ==
    \A s \in sections :
        /\ Ordered(gen[s].emitted)
        /\ Ordered(out[s])
        /\ Len(out[s]) <= Len(gen[s].emitted)
        /\ out[s] = SubSeq(gen[s].emitted, 1, Len(out[s]))

\* C5 witness: a section's start, token and completion were all yielded while
\* another section had events yielded too.
C5_Witness ==
    \E s, u \in sections :
        /\ s # u
        /\ Types(out[s]) = <<"section_start", "token", "section_complete">>
        /\ out[u] # <<>>

\* C6 as claimed: every terminal event of a section follows a section_start
\* of that section.
C6_StartFirst ==
    \A s \in sections : \A i \in 1..Len(gen[s].emitted) :
        gen[s].emitted[i].type \in TerminalTypes =>
            \E j \in 1..(i - 1) : gen[s].emitted[j].type = "section_start"

\* C6 amended: section_start is put after context retrieval succeeded and is
\* then the section's first event; a section whose retrieval failed puts
\* section_error alone, with no section_start.
C6_StartAfterRetrieval ==
    \A s \in sections :
        gen[s].emitted # <<>> =>
            IF gen[s].failed_at = "retrieval"
            THEN gen[s].emitted = <<SectionError(s, SearchFailed)>>
            ELSE /\ gen[s].emitted[1] = SectionStart(s)
                 /\ gen[s].context_text # <<>>
                 /\ Count(gen[s].emitted, {"section_start"}) = 1

\* C6 witness: one section failed in retrieval and its lone section_error was
\* yielded; another failed in the fallback, after its section_start.
C6_Witness ==
    \E s, u \in sections :
        /\ gen[s].failed_at = "retrieval"
        /\ out[s] = <<SectionError(s, SearchFailed)>>
        /\ gen[u].failed_at = "fallback"
        /\ Len(gen[u].emitted) >= 2

\* C7: when the stream of a section raised, the fallback was called exactly
\* once, with the messages of the streaming call; when it returned, the
\* section ends with section_complete carrying the fallback text and puts no
\* section_error.
C7_FallbackOnce ==
    \A s \in sections :
        /\ gen[s].failed_at \in {"stream", "fallback"} =>
             /\ gen[s].fallbacks = 1
             /\ gen[s].fallback_input = gen[s].stream_input
        /\ gen[s].failed_at \in {"", "retrieval"} => gen[s].fallbacks = 0
        /\ gen[s].failed_at = "stream" =>
             /\ gen[s].emitted[Len(gen[s].emitted)] = SectionComplete(s, FallbackContent)
             /\ Count(gen[s].emitted, {"section_error"}) = 0
             /\ Count(gen[s].emitted, {"section_complete"}) = 1

\* C7 witness: the stream raised after a token and the fallback returned.
C7_Witness ==
    \E s \in sections :
        /\ gen[s].failed_at = "stream"
        /\ gen[s].ntokens = 1
        /\ Types(out[s]) = <<"section_start", "token", "section_complete">>

\* The steps the generator of section s can still take.
GenStep(s) ==
    \/ GenStart(s)
    \/ GenRetrieveFail(s)
    \/ GenStreamEnd(s)
    \/ GenFallbackOk(s)
    \/ GenFallbackFail(s)

\* C8: a section whose retrieval failed, or whose stream and fallback both
\* failed, put exactly one section_error, as its last event, and returned
\* the state (nothing was raised into the workflow, which did not fail); no
\* generator is blocked by it: each sibling has returned with exactly one
\* terminal event of its own, or can still take a step.
C8_FailureContained ==
    \A s \in sections :
        gen[s].failed_at \in {"retrieval", "fallback"} =>
            /\ gen[s].pc = "returned"
            /\ gen[s].result = "state"
            /\ Count(gen[s].emitted, {"section_error"}) = 1
            /\ Count(gen[s].emitted, {"section_complete"}) = 0
            /\ gen[s].emitted[Len(gen[s].emitted)].type = "section_error"
            /\ wf = "running"
            /\ \A u \in sections \ {s} :
                 IF gen[u].pc = "returned"
                 THEN /\ gen[u].result = "state"
                      /\ Count(gen[u].emitted, TerminalTypes) = 1
                 ELSE ENABLED GenStep(u)

\* C8 witness: one section failed in retrieval, another in the fallback after
\* a token, and each put its own section_error.
C8_Witness ==
    \E s, u \in sections :
        /\ gen[s].failed_at = "retrieval"
        /\ gen[u].failed_at = "fallback"
        /\ gen[u].ntokens = 1
        /\ gen[s].pc = "returned" /\ gen[u].pc = "returned"

\* C9: no failure of the index search yields a run-level error or keeps the
\* workflow from being launched.
C9_SearchFailureLocal ==
    pc = "returned" =>
        /\ wf # "none"
        /\ \A i \in 1..Len(out[""]) : out[""][i] # RunError(SearchFailed)

\* C10: a request for a collection that does not exist ends with exactly one
\* error message on the wire and no section_start; generate_icf_streaming is
\* not invoked and no section generator starts.
C10_MissingCollectionRejected ==
    (collection \notin collections /\ pc # "validate") =>
        /\ pc = "rejected"
        /\ Len(sse[""]) = 1
        /\ sse[""][1].event = "error"
        /\ \A s \in sections : sse[s] = <<>>
        /\ \A n \in Names : out[n] = <<>>
        /\ last = NoEvent
        /\ wf = "none"
        /\ event_queue = <<>>
        /\ \A s \in sections : gen[s] = GenInit

\* C10 witness: the request named a missing collection and was rejected.
C10_Witness == collection \notin collections /\ pc = "rejected"

\* ------------------------------------------------- regeneration of a section
Regeneration == request.endpoint = "regenerate-section"
EndpointEnded == pc \in {"rejected", "failed", "returned"}

\* C11: a regeneration request whose section_name is not a known section is
\* rejected by the endpoint's own check: exactly one error message is on the
\* wire, the call of generate_icf_streaming is never reached, no workflow is
\* created and no section generator starts.
C11_UnknownSectionRejected ==
    (Regeneration /\ request.section_name \notin valid_sections
                  /\ pc \notin {"validate", "section"}) =>
        /\ pc = "rejected"
        /\ Len(sse[""]) = 1
        /\ sse[""][1].event = "error"
        /\ \A s \in sections : sse[s] = <<>>
        /\ \A n \in Names : out[n] = <<>>
        /\ wf = "none"
        /\ event_queue = <<>>
        /\ \A s \in sections : gen[s] = GenInit

\* C11 witness: the collection exists and the unknown section name was refused.
C11_Witness ==
    /\ Regeneration /\ request.section_name = "appendix"
    /\ collection \in collections
    /\ pc = "rejected"
    /\ sse[""] = <<[event |-> "error", data |-> [error |-> "Invalid section name"]]>>

\* C12: when regeneration of a known section X on an existing collection has
\* ended, a workflow was launched for it and no section other than X put or
\* had yielded any event.
C12_OnlyRequestedSection ==
    (Regeneration /\ request.section_name \in valid_sections
                  /\ pc \in {"failed", "returned"}) =>
        /\ wf # "none"
        /\ \A s \in sections \ {request.section_name} :
             gen[s].emitted = <<>> /\ out[s] = <<>>

\* C13: regeneration of a known section X on an existing collection ends with
\* complete carrying total_sections = 1 and completed_sections = 1, after
\* section_start(X) and with section_complete(X) as the last event of X, or
\* a failure of the model is reported for X.
C13_RegenerationStream ==
    (Regeneration /\ request.section_name \in valid_sections
                  /\ pc \in {"failed", "returned"}) =>
        \/ /\ last.type = "complete"
           /\ last.total_sections = 1
           /\ last.completed_sections = 1
           /\ sse[""][Len(sse[""])].event = "complete"
        \/ \E s \in sections : Count(out[s], {"section_error"}) > 0

\* ------------------------------------------------------------- termination
TimeoutError == RunError("Generation timeout - LLM taking too long to respond")

\* C14: every run ends: the endpoint and the coordinator reach their end
\* whatever the workflow and the section generators do (a wait that no event
\* ends is ended by its timeout), and after the end nothing more is yielded.
C14_RunFinite ==
    /\ <>EndpointEnded
    /\ [][EndpointEnded => (pc' = pc /\ out' = out /\ sse' = sse /\ last' = last)]_vars

\* C14 witness: a run ended after a timeout while a section generator that
\* had started had delivered no terminal event.
C14_Witness ==
    /\ pc = "returned"
    /\ \E i \in 1..Len(out[""]) : out[""][i] = TimeoutError
    /\ \E s \in sections :
         gen[s].pc = "stream" /\ Count(gen[s].emitted, TerminalTypes) = 0

\* C18: when the stream of a run has ended, no section generator launched by
\* the run is still executing.
C18_NoGeneratorOutlivesRun ==
    pc = "returned" => \A s \in sections : gen[s].pc \in {"waiting", "returned"}

\* --------------------------------------------------------- empty retrieval
NoPassages == get_protocol_context(search_results, min_score) = <<>>

\* C19: a section whose retrieval returned no passage went on to the model
\* call: its context is the non-empty placeholder naming the section, the
\* messages of the model call carry it, section_start was put, and the
\* generator has returned with exactly one terminal event or can still take
\* a step; it put section_error only when stream and fallback both raised.
C19_EmptyContextProceeds ==
    \A s \in sections :
        (NoPassages /\ gen[s].pc \in {"stream", "returned"}
                    /\ gen[s].failed_at # "retrieval") =>
            /\ gen[s].context_text = <<"No specific context for ", s>>
            /\ gen[s].context_text # <<>>
            /\ gen[s].stream_input = Messages(s, gen[s].context_text)
            /\ gen[s].emitted[1] = SectionStart(s)
            /\ IF gen[s].pc = "returned"
               THEN /\ Count(gen[s].emitted, TerminalTypes) = 1
                    /\ Count(gen[s].emitted, {"section_error"}) = 1
                           <=> gen[s].failed_at = "fallback"
               ELSE ENABLED GenStep(s)

\* C19 witness: the search found nothing above the threshold and a section
\* completed from its stream, its section_complete yielded.
C19_Witness ==
    /\ NoPassages
    /\ \E s \in sections :
         /\ gen[s].failed_at = ""
         /\ gen[s].pc = "returned"
         /\ Types(out[s]) = <<"section_start", "section_complete">>

\* ------------------------------------------------------------- the timeout
\* C15: the timeout is one of a single queue wait: a run yields the timeout
\* error only when one wait has lasted the whole window, however long the
\* run has lasted in total; in a run that has left its drain loop the error
\* was yielded exactly when its last wait ran out.
C15_TimeoutPerWait ==
    LET run == runs[TimedRun] IN
    /\ RunTimeout(TimedRun) \in run.yielded =>
            run.pc \in {"cleanup", "returned"} /\ run.waited = WaitTicks
    /\ (run.pc \in {"cleanup", "returned"} /\ run.waited = WaitTicks) =>
            RunTimeout(TimedRun) \in run.yielded

\* C15 witness: a run that lasted longer than the window in total, each of
\* its waits shorter than the window, ended with every section counted and no
\* timeout error.
C15_Witness ==
    LET run == runs[TimedRun] IN
    /\ run.pc = "returned"
    /\ run.elapsed > WaitTicks
    /\ run.sections_completed = total_sections
    /\ RunTimeout(TimedRun) \notin run.yielded

\* --------------------------------------------------------- overlapping runs
\* C16: no run yields the timeout error while its workflow, submitted and
\* not started, stands in the executor's queue behind the running workflow
\* of another run.
C16_NoTimeoutBehindOtherRun ==
    \A r \in RunIds :
        (RunTimeout(r) \in runs[r].yielded /\ runs[r].wf = "pending") =>
            executor.worker = NoWorker

OwnOrigin(r) == [run |-> r, document_id |-> runs[r].document_id]

\* C17: every event on the queue of a run, and every event the run yielded,
\* was put by the workflow of that run, for that run's collection.
C17_OwnQueue ==
    \A r \in RunIds :
        /\ runs[r].origins \subseteq {OwnOrigin(r)}
        /\ \A e \in runs[r].yielded : e.run = r
        /\ \A i \in 1..Len(runs[r].event_queue) :
             LET e == runs[r].event_queue[i] IN
             /\ e.run = r
             /\ e.section_name # "" => Origin(e) = OwnOrigin(r)

\* C17 witness: two runs on the same collection overlap, the first still in
\* its drain loop, and each has yielded section events.
C17_Witness ==
    /\ runs["r1"].document_id = runs["r2"].document_id
    /\ runs["r1"].pc = "drain"
    /\ runs["r1"].origins # {}
    /\ runs["r2"].origins # {}

\* ------------------------------------------------- the synchronous wrapper
\* C20: a call of _generate_icf_sync in which at least one section produced
\* text returns: with status completed_with_warnings and a non-empty errors
\* list when some section failed, with status completed otherwise.
C20_PartialOutcomeReturned ==
    (sync.pc \in {"returned", "raised"}
        /\ \E s \in workflow_sections : sync.nodes[s] = "content") =>
        /\ sync.pc = "returned"
        /\ (\E s \in workflow_sections : sync.nodes[s] = "empty") =>
               (sync.status = "completed_with_warnings" /\ sync.errors # {})

\* The seven sections of an informed consent form, by name.
SevenSections == {"summary", "background", "participants", "procedures",
                  "alternatives", "risks", "benefits"}

\* The call is over: it returned a response or it raised.
SyncOver == sync.pc \in {"returned", "raised"}

\* invoke has returned its result to _generate_icf_sync.
Invoked == \A s \in workflow_sections : sync.nodes[s] # "pending"

\* C21: _generate_icf_sync raises DocumentGenerationError "Missing required
\* ICF sections" whenever the workflow result lacks one of the seven required
\* sections, and it returns a response only when all seven are present.
C21_MissingSectionRaises ==
    /\ (SyncOver /\ Invoked /\ SevenSections \ sync.sections # {}) =>
           (sync.pc = "raised" /\ sync.error = MissingRequired)
    /\ sync.pc = "returned" => SevenSections \subseteq sync.sections

C21_Witness ==
    /\ sync.pc = "raised"
    /\ sync.error = MissingRequired
    /\ Cardinality(SevenSections \ sync.sections) = 1

\* C26: invoke does not raise because a section failed; in its response every
\* section of the workflow is either a key of sections (its node produced
\* text) or named in a "Missing section" error (its node produced nothing),
\* never both and never neither.
C26_SectionOrError ==
    /\ (sync.pc = "raised" /\ \E s \in workflow_sections : sync.nodes[s] = "empty")
           => sync.error = MissingRequired
    /\ (sync.pc \in {"collected", "returned"}
            \/ (sync.pc = "raised" /\ Invoked)) =>
           \A s \in workflow_sections :
              /\ (s \in sync.sections) # (MissingSection(s) \in sync.errors)
              /\ (s \in sync.sections) = (sync.nodes[s] = "content")

C26_Witness ==
    /\ sync.pc = "collected"
    /\ \E s \in workflow_sections : s \in sync.sections
    /\ \E s \in workflow_sections :
          s \notin sync.sections /\ MissingSection(s) \in sync.errors

\* C30: a response returned by _generate_icf_sync has all seven sections, no
\* errors and status "completed"; errors in invoke's response mean a required
\* section is missing, which raises, so "completed_with_warnings" is never
\* returned.
C30_ReturnedIsComplete ==
    /\ sync.pc = "returned" =>
          /\ sync.sections = SevenSections
          /\ sync.errors = {}
          /\ sync.status = "completed"
    /\ (SyncOver /\ Invoked /\ sync.errors # {}) =>
          /\ SevenSections \ sync.sections # {}
          /\ sync.pc = "raised"
    /\ sync.status # "completed_with_warnings"

C30_Witness ==
    /\ sync.pc = "returned"
    /\ sync.status = "completed"
    /\ sync.sections = SevenSections

\* -------------------------------------------------------- the progress count
\* C27: the complete event does not over-report: its completed_sections is at
\* most the number of section_complete and section_error events yielded in
\* the run, and at most total_sections.
C27_CompleteNeverOverReports ==
    last.type = "complete" =>
        /\ last.completed_sections <= SectionTerminals(sections)
        /\ last.completed_sections <= last.total_sections

\* ------------------------------------------------------ the order of events
\* The events of section n waiting on the queue, oldest first.
Queued(n) == SelectSeq(event_queue, LAMBDA e : e.section_name = n)

IsPrefix(a, b) == Len(a) <= Len(b) /\ SubSeq(b, 1, Len(a)) = a

\* A step that enqueues: one event more at the tail, nothing yielded.
Enqueues ==
    /\ Len(event_queue') = Len(event_queue) + 1
    /\ SubSeq(event_queue', 1, Len(event_queue)) = event_queue
    /\ out' = out

\* A step that dequeues: the oldest event leaves the queue and is the one
\* event yielded.
Dequeues ==
    /\ event_queue # <<>>
    /\ event_queue' = Tail(event_queue)
    /\ last' = Head(event_queue)
    /\ out' = [out EXCEPT ![Head(event_queue).section_name] =
                              Append(@, Head(event_queue))]

\* C24: while a run drains, events are yielded in the order they were put on
\* the queue, each exactly once: every change of the queue is a put at its
\* tail or the yield of its oldest event, what a section has put is what was
\* yielded for it followed by what still waits, and nothing waits when the
\* loop has ended.
C24_FifoExactlyOnce ==
    /\ [][ /\ event_queue' # event_queue => (Enqueues \/ Dequeues)
           /\ (pc = "drain" /\ event_queue # <<>> /\ out' # out) => Dequeues
         ]_vars
    /\ [](pc = "drain" =>
             \A s \in sections : out[s] \o Queued(s) = gen[s].emitted)
    /\ [](\A s \in sections : IsPrefix(out[s], gen[s].emitted))
    /\ [](pc # "drain" => event_queue = <<>>)

\* Events of two sections wait on the queue while others were yielded.
C24_Witness ==
    /\ pc = "drain"
    /\ \E s \in sections : out[s] # <<>>
    /\ \E i, j \in 1..Len(event_queue) :
          /\ i < j
          /\ event_queue[i].section_name # event_queue[j].section_name
          /\ event_queue[i].section_name \in sections
          /\ event_queue[j].section_name \in sections

\* ------------------------------------------------- generators and the queue
\* C29: no generator blocks on the event queue: whatever the coordinator is
\* doing (draining, cleaning up, or returned), a generator that has started
\* and not returned can take its next step, and a generator that has returned
\* did so by returning the state, also when what it put was never yielded.
C29_GeneratorNeverBlocks ==
    \A s \in sections :
        /\ gen[s].pc \notin {"waiting", "returned"} => ENABLED GenStep(s)
        /\ (gen[s].pc = "returned" /\ pc # "drain") => gen[s].result = "state"

\* C29 witness: the coordinator has returned, and a generator put its
\* terminal event afterwards and returned.
C29_Witness ==
    /\ pc = "returned"
    /\ \E s \in sections :
         /\ gen[s].pc = "returned"
         /\ Count(gen[s].emitted, TerminalTypes) = 1
         /\ Count(out[s], TerminalTypes) = 0

\* ------------------------------------------------------------ the retrieval
\* The places, among the first search_limit of the ranking, of the candidates
\* whose score reaches the threshold.
Qualifying ==
    {i \in 1..Len(retrieval.candidates) :
        i <= 10 /\ retrieval.candidates[i].score >= retrieval.min_score}

\* The j-th smallest element of the set of places I.
Nth(I, j) == CHOOSE i \in I : Cardinality({k \in I : k <= i}) = j

\* C22: get_protocol_context returns exactly the candidates the search
\* returned (the first 10 of the ranking) whose score is at least min_score,
\* each once and in the index's order; the empty list when none qualifies;
\* it raises DocumentGenerationError exactly when the search failed.
C22_ContextIsFilteredSearch ==
    /\ retrieval.pc = "returned" =>
          /\ retrieval.search = "ok"
          /\ retrieval.error = ""
          /\ Len(retrieval.context) = Cardinality(Qualifying)
          /\ \A j \in 1..Len(retrieval.context) :
                retrieval.context[j] = retrieval.candidates[Nth(Qualifying, j)]
    /\ retrieval.pc = "raised" =>
          /\ retrieval.search = "failed"
          /\ retrieval.error = SearchFailed
          /\ retrieval.context = <<>>

\* C22 witness: of more than 10 candidates one beyond the tenth reaches the
\* threshold, one among the first ten does not, one scores just the
\* threshold, and the result is neither empty nor all ten.
C22_Witness ==
    /\ retrieval.pc = "returned"
    /\ Len(retrieval.candidates) > 10
    /\ retrieval.candidates[11].score >= retrieval.min_score
    /\ \E i \in 1..10 : retrieval.candidates[i].score < retrieval.min_score
    /\ \E i \in 1..10 : retrieval.candidates[i].score = retrieval.min_score
    /\ Len(retrieval.context) \in 2..9

\* ------------------------------------------------------ the wire protocol
\* The places of the events of a known type among those the loop has passed.
Known ==
    {i \in 1..(wire.i - 1) :
        wire.events[i].type \in {"section_start", "token", "section_complete",
                                 "section_error", "complete", "error"}}

\* The fields of an event that its message carries.
WireFields(type) ==
    CASE type = "section_start" -> {"section_name"}
      [] type = "token" -> {"section_name", "content", "accumulated_content"}
      [] type = "section_complete" -> {"section_name", "content"}
      [] type = "section_error" -> {"section_name", "error"}
      [] type = "complete" -> {"total_sections", "completed_sections", "errors"}
      [] type = "error" -> {"error"}

TokenPlaces == {i \in 1..Len(stream.emitted) : stream.emitted[i].type = "token"}

RECURSIVE Deltas(_)
\* The delta texts of the first k events put, which are tokens, joined.
Deltas(k) ==
    IF k = 0 THEN <<>> ELSE Deltas(k - 1) \o stream.emitted[k].content

\* C25: in a section whose stream has not raised, each token's accumulated
\* text is the concatenation of the deltas of the section's tokens up to and
\* including it, and section_complete carries the accumulated text of the
\* last token, the empty text when there was no token.
C25_TokenAccumulation ==
    stream.pc \in {"loop", "complete"} =>
        /\ \A k \in TokenPlaces :
              /\ k - 1 \in TokenPlaces \cup {0}
              /\ stream.emitted[k].accumulated_content = Deltas(k)
        /\ stream.pc = "complete" =>
              LET n == Len(stream.emitted) IN
              /\ stream.emitted[n].type = "section_complete"
              /\ TokenPlaces = 1..(n - 1)
              /\ stream.emitted[n].content =
                    IF n = 1 THEN <<>>
                    ELSE stream.emitted[n - 1].accumulated_content

\* C25 witness: a stream of two different deltas and a chunk without content
\* has completed.
C25_Witness ==
    /\ stream.pc = "complete"
    /\ stream.chunks = <<<<"a">>, <<>>, <<"b">>>>
    /\ Len(stream.emitted) = 3
    /\ stream.emitted[3].content = <<"a", "b">>

\* ------------------------------------------------- the shared document id
\* The nodes of call c can still read the stored document id.
Reading(c) ==
    /\ calls[c].pc = "invoke"
    /\ \E s \in sections : calls[c].nodes[s] = ""

\* C28: overlapping non-streaming calls retrieve from their own collection
\* only: every retrieval of a call was made from the call's collection, and
\* while a call's nodes can still read the document id stored by invoke, it
\* is that call's and no step overwrites it.
C28_OwnCollectionOnly ==
    /\ [](\A c \in CallIds :
            /\ \A s \in sections : calls[c].nodes[s] \in {"", calls[c].collection}
            /\ Reading(c) =>
                 document_generator.current_document_id = calls[c].collection)
    /\ [][(\E c \in CallIds : Reading(c)) =>
             document_generator' = document_generator]_vars

\* C28 witness: a generation for one collection is in its nodes, one of which
\* has retrieved, while a generation for another collection waits in the
\* executor's queue.
C28_Witness ==
    \E c, d \in CallIds :
        /\ calls[c].kind = "generate" /\ calls[d].kind = "generate"
        /\ calls[c].collection # calls[d].collection
        /\ Reading(c)
        /\ \E s \in sections : calls[c].nodes[s] = calls[c].collection
        /\ calls[d].pc = "queued"

====
